---- MODULE Spec2Model ----
(***************************************************************************)
(* A model of the posture corrector: the monitoring loop                   *)
(* (src/monitor_posture.py), the calibration loop                          *)
(* (src/calibrate_posture.py) and the two landmark extractors              *)
(* (src/posture_utils.py, src/AI-Posture-Corrector/python/posture_utils.py)*)
(* with, on their own, the three angle functions and the scoring of one    *)
(* frame.  Each has its specification: SpecMonitor, SpecCalibration,       *)
(* SpecExtract, SpecAngle, SpecScore; SpecProtocol runs the calibration    *)
(* and then the monitor on the file it left.                               *)
(*                                                                         *)
(* Numbers.  Angles are floats in the code.  In the monitor they are held  *)
(* here as integers in units of 1/Scale degree, Scale = 25^MaxAdapts, so   *)
(* that baseline*0.92 + current*0.08 = (23*baseline + 2*current)/25 is     *)
(* exact for MaxAdapts successive adaptations of whole-degree inputs.      *)
(* Time is in whole seconds; the clock may stand still between two reads.  *)
(* In the calibration angles are whole degrees, a standard deviation is    *)
(* compared with the threshold squared and cleared of fractions, and a     *)
(* mean is held as num/den.  Float rounding is not modelled.               *)
(*                                                                         *)
(* A function's locals are reset when it returns; what a claim needs of    *)
(* them afterwards is kept in exitBy, exitCount and exitLen.  ESC at the   *)
(* end of a monitor iteration is the step MonEscape, taken after a frame   *)
(* has been shown; in the calibration it is an input of each iteration,    *)
(* since it is tested before the count there.                              *)
(***************************************************************************)
EXTENDS Integers, Sequences, FiniteSets, TLC

\* ------------------------------------------------------------------ bounds
\* The monitor's clock stops advancing here (it starts at 1).
MaxTime == 17
\* Adaptive baseline updates explored in one monitoring session.
MaxAdapts == 1

\* Frames of a calibration stream that break its constancy: a change of the
\* angles, a frame without a person, with hidden landmarks, or out of position.
MaxEvents == 1

\* ---------------------------------------------------- program constants
BAD_DEGREE_THRESHOLD == 12
GOOD_SCORE_THRESHOLD == 88
GOOD_FRAMES_FOR_ADAPT == 90
\* ADAPT_LR = 0.08, in hundredths.
ADAPT_LR == 8
ALERT_TIME == 5
STABILITY_WINDOW == 30
\* STABILITY_THRESHOLD = 2.5, in tenths of a degree.
STABILITY_THRESHOLD == 25
STABLE_FRAMES_REQUIRED == 75
\* frame.shape of the camera's frames.
FrameW == 640
FrameH == 480
\* The escalation delay of the slouch timer; the monitor's code has none.
T2 == 15

\* Seconds that may pass between two reads of the clock: none, exactly
\* ALERT_TIME, one more.
DtChoices == {0, ALERT_TIME, ALERT_TIME + 1}

\* One degree, in the monitor's angle unit.
Scale == 25 ^ MaxAdapts
Deg(d) == d * Scale

\* Python's None, where the code holds None or a time.
None == -1
Abs(x) == IF x < 0 THEN -x ELSE x
Min(a, b) == IF a < b THEN a ELSE b
Max(a, b) == IF a > b THEN a ELSE b

\* ------------------------------------------------------------------- files
\* The baseline file: absent, or a flat mapping of axis name to degrees.
NoFile == [exists |-> FALSE, data |-> <<>>]
FileOf(d) == [exists |-> TRUE, data |-> d]
SameFile(f, g) == f.exists = g.exists /\ (f.exists => f.data = g.data)

\* A baseline with the keys monitor() reads, as a user or an earlier revision
\* of the calibration wrote it.
MonitorBaseline == [neck |-> Deg(90), upper_back |-> Deg(160)]
\* A baseline with the keys run_calibration writes (degrees as num/den).
CalibrationBaseline ==
    [torso_recline |-> [num |-> 10, den |-> 1],
     neck_protraction |-> [num |-> 20, den |-> 1],
     back_curve |-> [num |-> 170, den |-> 1]]
MonitorFiles == {NoFile, FileOf(MonitorBaseline), FileOf(CalibrationBaseline)}

VARIABLES
    file,          \* posture_baseline.json
    clock,         \* time.time()
    mpc,           \* monitor(): start | loop | stopped | nocam | raised | crashed
    cap,           \* monitor()'s camera: none | open | failed | released
    baseline,      \* monitor()'s baseline dict
    good_frames,
    bad_since,
    elapsed,
    display,       \* what the last frame showed: blank | no_person | score | adjusting | sit_up
    adapts,        \* adaptive updates done so far
    lastBad,       \* bad_now of the last scored frame (FALSE before the first)
    runStart,      \* clock reading on the first frame of the current unbroken run of
                   \* scored frames with bad_now (None outside such a run)
    ended,         \* some run of slouching frames was ended by a frame without bad_now
    occluded,      \* the last frame had pose landmarks, one that monitor() reads
                   \* (nose, left ear, left shoulder, left hip) below visibility 0.5
    streak,        \* good scored frames since the last of: the start, a scored frame
                   \* that was not good, an adaptive update
    lastGood,      \* the last scored frame had score >= GOOD_SCORE_THRESHOLD
    cpc,           \* run_calibration(): idle | start | loop | saved | failed | nocam
    angle_history,
    stable_frames_count,
    calibration_data,
    is_in_position,
    file0,         \* the file as run_calibration found it
    events,        \* frames so far that broke the stream's constancy
    lastAngles,    \* angles of the last in-position frame
    constFrames,   \* frames read so far, while none has broken the stream's constancy
    everStable,    \* some frame had a full window with every axis below the threshold
    exitBy,        \* how the loop was left: none | esc | stable | read
    exitCount,     \* stable_frames_count when the loop was left
    exitLen,       \* len(calibration_data) when the loop was left
    gapInRun,      \* a frame with no person or not visible was read since the first
                   \* of the samples calibration_data holds (or held at the exit)
    epc,           \* the extractors: idle | ready | done_root | done_py
    landmarks,     \* the frame's pose landmarks
    posture_angles,\* what get_posture_angles returned
    sources,       \* the landmarks its hip, shoulder and ear came from
    apc,           \* an angle function: idle | ready | done_monitor | done_utils | done_py
    points,        \* the points a, b, c it is called with
    angle_out,     \* what it returned
    spc,           \* the scoring of one frame: idle | ready | done
    score_args,    \* the current and baseline angles it is called with
    score_out,     \* what compute_score returned
    bad_out        \* the frame's bad_now

gvars == <<occluded, streak, lastGood>>
mvars == <<clock, mpc, cap, baseline, good_frames, bad_since, elapsed, display,
           adapts, lastBad, runStart, ended, gvars>>
cvars == <<cpc, angle_history, stable_frames_count, calibration_data, is_in_position,
           file0, events, lastAngles, constFrames, everStable, exitBy, exitCount,
           exitLen, gapInRun>>
avars == <<apc, points, angle_out>>
svars == <<spc, score_args, score_out, bad_out>>
evars == <<epc, landmarks, posture_angles, sources, avars, svars>>
vars == <<file, mvars, cvars, evars>>

\* ----------------------------------------------------------- the extractors
\* Coordinates are in tenths of the normalized image unit, visibilities in tenths.
CoordUnit == 10
LandmarkNames ==
    {"LEFT_EAR", "RIGHT_EAR", "LEFT_SHOULDER", "RIGHT_SHOULDER", "LEFT_HIP", "RIGHT_HIP"}
SideOf(name) == IF name \in {"LEFT_EAR", "LEFT_SHOULDER", "LEFT_HIP"} THEN "left" ELSE "right"

\* Visibilities below, at and above the 0.5 of get_landmark.
VisLevels == {4, 5, 6}

\* Where the pose model puts the six landmarks: a sitter upright (ear above
\* shoulder above hip on either side), and one whose left ear coincides with
\* the left shoulder.
BodyPoses ==
    { [LEFT_EAR |-> <<5, 2, 0>>, LEFT_SHOULDER |-> <<5, 4, 0>>, LEFT_HIP |-> <<5, 8, 0>>,
       RIGHT_EAR |-> <<5, 2, 3>>, RIGHT_SHOULDER |-> <<5, 4, 3>>, RIGHT_HIP |-> <<5, 8, 3>>],
      [LEFT_EAR |-> <<6, 4, 0>>, LEFT_SHOULDER |-> <<6, 4, 0>>, LEFT_HIP |-> <<5, 8, 0>>,
       RIGHT_EAR |-> <<7, 3, 3>>, RIGHT_SHOULDER |-> <<6, 4, 3>>, RIGHT_HIP |-> <<5, 8, 3>>] }

\* A point get_landmark did not return.
NonePoint == [name |-> "None", pt |-> <<0, 0, 0>>]
IsNone(p) == p.name = "None"

\* get_landmark (both files): None below 0.5, else [x, y, z].  The name rides
\* along to tell which landmark a point came from.
get_landmark(lms, part_name) ==
    IF lms[part_name].visibility < 5 THEN NonePoint
    ELSE [name |-> part_name, pt |-> lms[part_name].pt]

Sub(a, b) == <<a[1] - b[1], a[2] - b[2], a[3] - b[3]>>
Dot(a, b) == a[1] * b[1] + a[2] * b[2] + a[3] * b[3]

\* An angle is held by its cosine, dot / sqrt(nn); kind tells a number from
\* None and from nan.
AngleNone == [kind |-> "None", dot |-> 0, nn |-> 0]
AngleNan == [kind |-> "nan", dot |-> 0, nn |-> 0]
AngleOf(v1, v2) == [kind |-> "angle", dot |-> Dot(v1, v2), nn |-> Dot(v1, v1) * Dot(v2, v2)]

\* calculate_angle_3d (src/posture_utils.py): None on a zero-length ray.
calculate_angle_3d(a, b, c) ==
    LET v1 == Sub(a, b)
        v2 == Sub(c, b)
    IN IF Dot(v1, v1) = 0 \/ Dot(v2, v2) = 0 THEN AngleNone ELSE AngleOf(v1, v2)

\* The float 0.0 as an angle: its cosine is 1.
AngleZero == [kind |-> "angle", dot |-> 1, nn |-> 1]

\* calculate_3d_angle (src/monitor_posture.py): 0.0 on a zero-length ray.
calculate_3d_angle(a, b, c) ==
    LET ba == Sub(a, b)
        bc == Sub(c, b)
    IN IF Dot(ba, ba) * Dot(bc, bc) = 0 THEN AngleZero ELSE AngleOf(ba, bc)

\* calculate_angle_between_vectors (python/posture_utils.py): v / 0 is nan,
\* and nan goes through dot, clip, arccos and degrees.
calculate_angle_between_vectors(v1, v2) ==
    IF Dot(v1, v1) = 0 \/ Dot(v2, v2) = 0 THEN AngleNan ELSE AngleOf(v1, v2)

NoAnglesOut ==
    [torso_recline |-> AngleNone, neck_protraction |-> AngleNone, back_curve |-> AngleNone]
NoSources == [hip |-> "None", shoulder |-> "None", ear |-> "None"]

\* get_posture_angles of src/posture_utils.py: each point is the left one if
\* get_landmark returned it, else the right one.
get_posture_angles(lms) ==
    LET left_ear == get_landmark(lms, "LEFT_EAR")
        right_ear == get_landmark(lms, "RIGHT_EAR")
        left_shoulder == get_landmark(lms, "LEFT_SHOULDER")
        right_shoulder == get_landmark(lms, "RIGHT_SHOULDER")
        left_hip == get_landmark(lms, "LEFT_HIP")
        right_hip == get_landmark(lms, "RIGHT_HIP")
        ear == IF ~IsNone(left_ear) THEN left_ear ELSE right_ear
        shoulder == IF ~IsNone(left_shoulder) THEN left_shoulder ELSE right_shoulder
        hip == IF ~IsNone(left_hip) THEN left_hip ELSE right_hip
        vertical_vector_point == <<hip.pt[1], hip.pt[2] + CoordUnit, hip.pt[3]>>
        vertical_vector_point_shoulder ==
            <<shoulder.pt[1], shoulder.pt[2] + CoordUnit, shoulder.pt[3]>>
    IN IF IsNone(ear) \/ IsNone(shoulder) \/ IsNone(hip)
       THEN [angles |-> NoAnglesOut, sources |-> NoSources]
       ELSE [angles |->
                [back_curve |-> calculate_angle_3d(hip.pt, shoulder.pt, ear.pt),
                 torso_recline |-> calculate_angle_3d(vertical_vector_point, hip.pt, shoulder.pt),
                 neck_protraction |->
                     calculate_angle_3d(vertical_vector_point_shoulder, shoulder.pt, ear.pt)],
             sources |-> [hip |-> hip.name, shoulder |-> shoulder.name, ear |-> ear.name]]

\* get_posture_angles of python/posture_utils.py: the left side, or the right
\* side when a left point is missing.
get_posture_angles_py(lms) ==
    LET lhip == get_landmark(lms, "LEFT_HIP")
        lshoulder == get_landmark(lms, "LEFT_SHOULDER")
        lear == get_landmark(lms, "LEFT_EAR")
        retry == IsNone(lhip) \/ IsNone(lshoulder) \/ IsNone(lear)
        hip == IF retry THEN get_landmark(lms, "RIGHT_HIP") ELSE lhip
        shoulder == IF retry THEN get_landmark(lms, "RIGHT_SHOULDER") ELSE lshoulder
        ear == IF retry THEN get_landmark(lms, "RIGHT_EAR") ELSE lear
        vec_vertical == <<0, -1, 0>>
        vec_torso == Sub(shoulder.pt, hip.pt)
        vec_neck == Sub(ear.pt, shoulder.pt)
        vec_shoulder_to_ear == Sub(ear.pt, shoulder.pt)
        vec_shoulder_to_hip == Sub(hip.pt, shoulder.pt)
    IN IF IsNone(hip) \/ IsNone(shoulder) \/ IsNone(ear)
       THEN [angles |-> NoAnglesOut, sources |-> NoSources]
       ELSE [angles |->
                [torso_recline |-> calculate_angle_between_vectors(vec_vertical, vec_torso),
                 neck_protraction |-> calculate_angle_between_vectors(vec_vertical, vec_neck),
                 back_curve |->
                     calculate_angle_between_vectors(vec_shoulder_to_ear, vec_shoulder_to_hip)],
             sources |-> [hip |-> hip.name, shoulder |-> shoulder.name, ear |-> ear.name]]

\* The landmarks of one frame: a pose and a visibility for each landmark.
FrameLandmarks ==
    { [n \in LandmarkNames |-> [pt |-> pose[n], visibility |-> vis[n]]] :
        pose \in BodyPoses, vis \in [LandmarkNames -> VisLevels] }

\* No extractor has been called.
ExtIdle ==
    /\ epc = "idle"
    /\ landmarks = <<>>
    /\ posture_angles = NoAnglesOut
    /\ sources = NoSources

\* The points the angle functions are tried on, and the triples a, b, c.
AnglePoints == {<<0, 0, 0>>, <<1, 0, 0>>, <<0, 1, 0>>, <<0, -1, 0>>, <<2, 0, 1>>}
AngleTriples == AnglePoints \X AnglePoints \X AnglePoints

\* No angle function has been called on its own.
AngleIdle ==
    /\ apc = "idle"
    /\ points = <<>>
    /\ angle_out = AngleNone

\* -------------------------------------------------------- the calibration
CalibrationKeys == {"torso_recline", "neck_protraction", "back_curve"}

\* Angles an in-position frame may carry, in whole degrees.  The two differ by
\* 6 degrees on back_curve: a full window holding 7 to 23 frames of one and the
\* rest of the other has a standard deviation of at least 2.5 on that axis.
CalibrationAngles ==
    { [torso_recline |-> 10, neck_protraction |-> 20, back_curve |-> 170],
      [torso_recline |-> 10, neck_protraction |-> 20, back_curve |-> 176] }
\* No in-position frame yet.
NoAngles == [torso_recline |-> None, neck_protraction |-> None, back_curve |-> None]

\* The guide oval of a FrameW x FrameH frame: oval_center, oval_axes.
oval_center == [x |-> FrameW \div 2, y |-> FrameH \div 2]
oval_axes == [x |-> (FrameW * 25) \div 100, y |-> (FrameH * 45) \div 100]

\* Pixel positions of hip, shoulder and ear: all inside the oval (the ear on its
\* rim), and the ear outside.
Layouts ==
    { [hip_px |-> [x |-> 320, y |-> 400], shoulder_px |-> [x |-> 320, y |-> 240],
       ear_px |-> [x |-> 320, y |-> 24]],
      [hip_px |-> [x |-> 320, y |-> 400], shoulder_px |-> [x |-> 320, y |-> 240],
       ear_px |-> [x |-> 320, y |-> 23]] }

\* is_point_in_ellipse: (px-cx)^2/ax^2 + (py-cy)^2/ay^2 <= 1, cleared of fractions.
is_point_in_ellipse(point, center, axes) ==
    IF axes.x = 0 \/ axes.y = 0 THEN FALSE
    ELSE (point.x - center.x) * (point.x - center.x) * axes.y * axes.y
         + (point.y - center.y) * (point.y - center.y) * axes.x * axes.x
         <= axes.x * axes.x * axes.y * axes.y

\* hip_in and shoulder_in and ear_in
InPosition(l) ==
    /\ is_point_in_ellipse(l.hip_px, oval_center, oval_axes)
    /\ is_point_in_ellipse(l.shoulder_px, oval_center, oval_axes)
    /\ is_point_in_ellipse(l.ear_px, oval_center, oval_axes)

RECURSIVE SumSeq(_)
SumSeq(s) == IF s = <<>> THEN 0 ELSE Head(s) + SumSeq(Tail(s))
RECURSIVE SumSquares(_)
SumSquares(s) == IF s = <<>> THEN 0 ELSE Head(s) * Head(s) + SumSquares(Tail(s))

\* deque(maxlen=STABILITY_WINDOW).append
DequeAppend(q, x) ==
    IF Len(q) < STABILITY_WINDOW THEN Append(q, x) ELSE Append(Tail(q), x)

\* np.std(q) < STABILITY_THRESHOLD, the population standard deviation:
\* sqrt(sum(x^2)/n - (sum(x)/n)^2) < T/10, squared and cleared of fractions.
StdBelowThreshold(q) ==
    LET n == Len(q) IN
    100 * (n * SumSquares(q) - SumSeq(q) * SumSeq(q))
        < STABILITY_THRESHOLD * STABILITY_THRESHOLD * n * n

\* is_stable = all(std_devs[key] < STABILITY_THRESHOLD for key in angle_history)
is_stable_any(history) == \E key \in DOMAIN history : StdBelowThreshold(history[key])
is_stable(history) == \A key \in DOMAIN history : StdBelowThreshold(history[key])

\* np.mean([d[key] for d in calibration_data]) for key in angle_history, as num/den.
BaselineOf(data) ==
    [key \in CalibrationKeys |->
        [num |-> SumSeq([i \in 1..Len(data) |-> data[i][key]]), den |-> Len(data)]]

\* stable_frames_count and calibration_data after an in-position frame: as
\* they were while the window fills, one more on a stable frame, none on an
\* unstable one.
StableCount(full, stable, count) ==
    IF ~full THEN count ELSE IF stable THEN count + 1 ELSE 0
StableData_keep(full, stable, data, angles) ==
    IF full /\ stable THEN Append(data, angles) ELSE data
StableData(full, stable, data, angles) ==
    IF ~full THEN data ELSE IF stable THEN Append(data, angles) ELSE <<>>

\* The check after the loop: too few samples fail the calibration.
CalibrationFails_never(data) == FALSE
CalibrationFails(data) == Len(data) < STABLE_FRAMES_REQUIRED

\* The two breaks at the end of an iteration: ESC first, then the count.
ExitOf_late(esc, count) ==
    IF esc THEN "esc" ELSE IF count > STABLE_FRAMES_REQUIRED THEN "stable" ELSE "none"
ExitOf(esc, count) ==
    IF esc THEN "esc" ELSE IF count >= STABLE_FRAMES_REQUIRED THEN "stable" ELSE "none"

EmptyHistory == [key \in CalibrationKeys |-> <<>>]

\* run_calibration() has not been called.
CalIdle ==
    /\ cpc = "idle"
    /\ angle_history = EmptyHistory
    /\ stable_frames_count = 0
    /\ calibration_data = <<>>
    /\ is_in_position = FALSE
    /\ file0 = NoFile
    /\ events = 0
    /\ lastAngles = NoAngles
    /\ constFrames = 0
    /\ everStable = FALSE
    /\ exitBy = "none"
    /\ exitCount = 0
    /\ exitLen = 0
    /\ gapInRun = FALSE

\* ------------------------------------------------------------ the monitor
MonitorKeys == {"neck", "upper_back"}

\* Angles (neck, upper_back) a scored frame may carry, in whole degrees, one for
\* each outcome of (score >= GOOD_SCORE_THRESHOLD, bad_now) against
\* MonitorBaseline: at the baseline (score 100, not bad); the back 15 straighter
\* (score 91, bad); 10 off on both axes (score 85, not bad); a slouch, 30 off
\* on both (score 55, bad).
MonitorPoses ==
    { [neck |-> Deg(90),  upper_back |-> Deg(160)],
      [neck |-> Deg(90),  upper_back |-> Deg(175)],
      [neck |-> Deg(100), upper_back |-> Deg(170)],
      [neck |-> Deg(120), upper_back |-> Deg(130)] }

\* The frame whose angles are 10 degrees off on both axes is one where the
\* pose model guesses a hidden left ear.
HiddenPose == [neck |-> Deg(100), upper_back |-> Deg(170)]

\* Whether every landmark monitor() reads is at visibility 0.5 or more, on a
\* frame with these angles.
VisibleChoices(current) == IF current = HiddenPose THEN {FALSE} ELSE {TRUE}

\* load_baseline: the file's mapping, or FileNotFoundError.
load_baseline_default(f) ==
    IF f.exists THEN [raised |-> FALSE, value |-> f.data]
    ELSE [raised |-> FALSE, value |-> MonitorBaseline]
load_baseline(f) ==
    IF f.exists THEN [raised |-> FALSE, value |-> f.data]
    ELSE [raised |-> TRUE, value |-> <<>>]

\* w[key] * 1.5, in hundredths of a point per degree.
weight(key) == IF key = "neck" THEN 90 ELSE 60

\* compute_score, in units of 1/(100*Scale) point.
compute_score_maxclip(current, base) ==
    LET pen(key) == Max(Abs(current[key] - base[key]), Deg(30)) * weight(key)
        score == Deg(100) * 100 - pen("neck") - pen("upper_back")
    IN Max(0, Min(Deg(100) * 100, score))
compute_score(current, base) ==
    LET pen(key) == Min(Abs(current[key] - base[key]), Deg(30)) * weight(key)
        score == Deg(100) * 100 - pen("neck") - pen("upper_back")
    IN Max(0, Min(Deg(100) * 100, score))

\* score >= GOOD_SCORE_THRESHOLD
IsGoodScore(score) == score >= Deg(GOOD_SCORE_THRESHOLD) * 100

\* good_frames after the score test: one more, or none.
CountGood_keep(good, n) == IF good THEN n + 1 ELSE n
CountGood(good, n) == IF good THEN n + 1 ELSE 0

\* baseline[k] * (1.0 - ADAPT_LR) + current[k] * ADAPT_LR for k in baseline
AdaptBaseline(base, current) ==
    [k \in DOMAIN base |-> (base[k] * (100 - ADAPT_LR) + current[k] * ADAPT_LR) \div 100]

\* bad_now = any(abs(current[k] - baseline[k]) > BAD_DEGREE_THRESHOLD for k in baseline)
bad_now(current, base) ==
    \E k \in DOMAIN base : Abs(current[k] - base[k]) > Deg(BAD_DEGREE_THRESHOLD)

\* The good scored frames since the last of: the start, a scored frame that
\* was not good, a frame that completed GOOD_FRAMES_FOR_ADAPT of them.
NextStreak(good, n) ==
    IF good /\ n + 1 < GOOD_FRAMES_FOR_ADAPT THEN n + 1 ELSE 0

\* Python's truth value of bad_since (None and 0.0 are false).
Truthy(t) == t # None /\ t # 0

\* The bad_since a scored frame leaves, reading the clock at t.
NextBadSince_keep(bad, since, t) ==
    IF bad THEN (IF since = None THEN t ELSE since) ELSE since
NextBadSince(bad, since, t) ==
    IF bad THEN (IF since = None THEN t ELSE since) ELSE None

\* The text a scored frame puts at (10, 100).
AlertText_ge(since, el) ==
    IF Truthy(since) /\ el >= ALERT_TIME THEN "sit_up"
    ELSE IF Truthy(since) THEN "adjusting" ELSE "score"
AlertText(since, el) ==
    IF Truthy(since) /\ el > ALERT_TIME THEN "sit_up"
    ELSE IF Truthy(since) THEN "adjusting" ELSE "score"

\* Angles in [0, 180] the scoring is tried on, and the pairs of a current
\* and a baseline dict.
ScoreAngles == {Deg(0), Deg(12), Deg(13), Deg(90), Deg(150), Deg(180)}
ScoreDicts == [MonitorKeys -> ScoreAngles]
ScoreArgs == [current : ScoreDicts, baseline : ScoreDicts]

\* No frame is being scored on its own.
ScoreIdle ==
    /\ spc = "idle"
    /\ score_args = <<>>
    /\ score_out = None
    /\ bad_out = FALSE

\* monitor() up to its loop: load the baseline, open the camera.
MonStart ==
    /\ mpc = "start"
    /\ LET r == load_baseline(file) IN
       IF r.raised
       THEN /\ mpc' = "raised"
            /\ UNCHANGED <<cap, baseline>>
       ELSE /\ baseline' = r.value
            /\ \E opened \in BOOLEAN :
                 /\ cap' = IF opened THEN "open" ELSE "failed"
                 /\ mpc' = IF opened THEN "loop" ELSE "nocam"
    /\ UNCHANGED <<file, clock, good_frames, bad_since, elapsed, display, adapts,
                   lastBad, runStart, ended, gvars, cvars, evars>>

\* Leaving the loop: cap.release(), cv2.destroyAllWindows(), and monitor()'s
\* locals are gone with its frame.
MonLeave ==
    /\ mpc' = "stopped"
    /\ cap' = "released"
    /\ baseline' = <<>>
    /\ good_frames' = 0
    /\ bad_since' = None
    /\ elapsed' = None
    /\ display' = "blank"
    /\ lastBad' = FALSE
    /\ runStart' = None
    /\ occluded' = FALSE
    /\ streak' = 0
    /\ lastGood' = FALSE
    /\ UNCHANGED <<file, clock, adapts, ended, cvars, evars>>

\* An iteration whose cap.read() fails: break.
MonReadFail ==
    /\ mpc = "loop"
    /\ MonLeave

\* cv2.waitKey returns ESC at the end of an iteration (a frame has been shown): break.
MonEscape ==
    /\ mpc = "loop"
    /\ display # "blank"
    /\ MonLeave

\* An iteration on a frame with no pose landmarks; dt seconds pass.
MonNoPerson ==
    /\ mpc = "loop"
    /\ \E dt \in DtChoices :
         /\ clock + dt <= MaxTime
         /\ clock' = clock + dt
    /\ display' = "no_person"
    /\ occluded' = FALSE
    /\ UNCHANGED <<file, mpc, cap, baseline, good_frames, bad_since, elapsed, adapts,
                   lastBad, runStart, ended, streak, lastGood, cvars, evars>>

\* An iteration on a frame with pose landmarks whose baseline lacks a key
\* compute_score reads: KeyError leaves monitor().
MonKeyError ==
    /\ mpc = "loop"
    /\ ~(MonitorKeys \subseteq DOMAIN baseline)
    /\ mpc' = "crashed"
    /\ UNCHANGED <<file, clock, cap, baseline, good_frames, bad_since, elapsed,
                   display, adapts, lastBad, runStart, ended, gvars, cvars, evars>>

\* An iteration on a frame with pose landmarks: score, adapt, time the slouch,
\* overlay.  dt1 passes before the frame's clock reads; dt2 between the read
\* that sets bad_since (line 116) and the one that computes elapsed (line 117),
\* which are both made only on the first slouching frame of a run.  The
\* landmarks' visibility is an input the loop does not read.
MonScored ==
    /\ mpc = "loop"
    /\ DOMAIN baseline = MonitorKeys
    /\ \E current \in MonitorPoses, dt1 \in DtChoices, dt2 \in DtChoices :
       \E visible \in VisibleChoices(current) :
         LET score == compute_score(current, baseline)
             counted == CountGood(IsGoodScore(score), good_frames)
             adapt == counted >= GOOD_FRAMES_FOR_ADAPT
             base1 == IF adapt THEN AdaptBaseline(baseline, current) ELSE baseline
             bad == bad_now(current, base1)
             t1 == clock + dt1
             t2 == t1 + dt2
             since1 == NextBadSince(bad, bad_since, t1)
             el == IF bad THEN t2 - since1 ELSE 0
         IN /\ t2 <= MaxTime
            /\ dt2 # 0 => bad /\ bad_since = None
            /\ adapt => adapts < MaxAdapts
            /\ clock' = t2
            /\ baseline' = base1
            /\ file' = IF adapt THEN FileOf(base1) ELSE file
            /\ good_frames' = IF adapt THEN 0 ELSE counted
            /\ adapts' = IF adapt THEN adapts + 1 ELSE adapts
            /\ bad_since' = since1
            /\ elapsed' = el
            /\ display' = AlertText(since1, el)
            /\ lastBad' = bad
            /\ runStart' = IF bad THEN (IF lastBad THEN runStart ELSE t1) ELSE None
            /\ ended' = (ended \/ (lastBad /\ ~bad))
            /\ occluded' = ~visible
            /\ streak' = NextStreak(IsGoodScore(score), streak)
            /\ lastGood' = IsGoodScore(score)
    /\ UNCHANGED <<mpc, cap, cvars, evars>>

\* monitor() has not been called.
MonIdle ==
    /\ clock = 1
    /\ mpc = "idle"
    /\ cap = "none"
    /\ baseline = <<>>
    /\ good_frames = 0
    /\ bad_since = None
    /\ elapsed = None
    /\ display = "blank"
    /\ adapts = 0
    /\ lastBad = FALSE
    /\ runStart = None
    /\ ended = FALSE
    /\ occluded = FALSE
    /\ streak = 0
    /\ lastGood = FALSE

MonInit ==
    /\ file \in MonitorFiles
    /\ CalIdle
    /\ ExtIdle
    /\ AngleIdle
    /\ ScoreIdle
    /\ clock = 1
    /\ mpc = "start"
    /\ cap = "none"
    /\ baseline = <<>>
    /\ good_frames = 0
    /\ bad_since = None
    /\ elapsed = None
    /\ display = "blank"
    /\ adapts = 0
    /\ lastBad = FALSE
    /\ runStart = None
    /\ ended = FALSE
    /\ occluded = FALSE
    /\ streak = 0
    /\ lastGood = FALSE

MonNext == MonStart \/ MonReadFail \/ MonEscape \/ MonNoPerson \/ MonKeyError \/ MonScored

SpecMonitor == MonInit /\ [][MonNext]_vars

\* ------------------------------------------- the calibration, its actions
\* The loop is left by `how` with these locals: release the camera, then fail
\* or write the baseline; run_calibration()'s locals are gone with its frame.
CalLeave(how, count, data) ==
    /\ exitBy' = how
    /\ exitCount' = count
    /\ exitLen' = Len(data)
    /\ cpc' = IF CalibrationFails(data) THEN "failed" ELSE "saved"
    /\ file' = IF CalibrationFails(data) THEN file ELSE FileOf(BaselineOf(data))
    /\ angle_history' = EmptyHistory
    /\ stable_frames_count' = 0
    /\ calibration_data' = <<>>
    /\ is_in_position' = FALSE

\* The end of an iteration that leaves these locals: break or go on.
CalEndFrame(esc, history, count, data, inpos) ==
    IF ExitOf(esc, count) # "none"
    THEN CalLeave(ExitOf(esc, count), count, data)
    ELSE /\ angle_history' = history
         /\ stable_frames_count' = count
         /\ calibration_data' = data
         /\ is_in_position' = inpos
         /\ UNCHANGED <<cpc, file, exitBy, exitCount, exitLen>>

\* A frame that breaks the stream's constancy is counted, up to MaxEvents.
CalEvent(is_event) ==
    /\ is_event => events < MaxEvents
    /\ events' = IF is_event THEN events + 1 ELSE events
    /\ constFrames' = IF events' = 0 THEN constFrames + 1 ELSE 0

\* run_calibration() up to its loop: open the camera.
CalStart ==
    /\ cpc = "start"
    /\ \E opened \in BOOLEAN : cpc' = IF opened THEN "loop" ELSE "nocam"
    /\ UNCHANGED <<file, mvars, evars, angle_history, stable_frames_count, calibration_data,
                   is_in_position, file0, events, lastAngles, constFrames, everStable,
                   exitBy, exitCount, exitLen, gapInRun>>

\* The camera closes or cap.read() fails: the loop ends.
CalReadFail ==
    /\ cpc = "loop"
    /\ CalLeave("read", stable_frames_count, calibration_data)
    /\ UNCHANGED <<mvars, evars, file0, events, lastAngles, constFrames, everStable,
                   gapInRun>>

\* An iteration on a frame with no pose landmarks ("NO PERSON").
CalNoPerson ==
    /\ cpc = "loop"
    /\ CalEvent(TRUE)
    /\ \E esc \in BOOLEAN :
         CalEndFrame(esc, angle_history, stable_frames_count, calibration_data, FALSE)
    /\ gapInRun' = (gapInRun \/ calibration_data # <<>>)
    /\ UNCHANGED <<mvars, evars, file0, lastAngles, everStable>>

\* An iteration on a frame whose landmarks are not visible ("NOT VISIBLE").
CalNotVisible ==
    /\ cpc = "loop"
    /\ CalEvent(TRUE)
    /\ \E esc \in BOOLEAN :
         CalEndFrame(esc, angle_history, stable_frames_count, calibration_data, FALSE)
    /\ gapInRun' = (gapInRun \/ calibration_data # <<>>)
    /\ UNCHANGED <<mvars, evars, file0, lastAngles, everStable>>

\* An iteration on a visible frame with a point outside the oval.
CalOutOfPosition ==
    /\ cpc = "loop"
    /\ CalEvent(TRUE)
    /\ \E l \in Layouts, esc \in BOOLEAN :
         /\ ~InPosition(l)
         /\ CalEndFrame(esc, angle_history, 0, <<>>, FALSE)
    /\ gapInRun' = FALSE
    /\ UNCHANGED <<mvars, evars, file0, lastAngles, everStable>>

\* An iteration on a visible frame inside the oval: append the angles, and with
\* a full window count the frame if it is stable, start over if not.
CalInPosition ==
    /\ cpc = "loop"
    /\ \E l \in Layouts, angles \in CalibrationAngles, esc \in BOOLEAN :
         LET history == [key \in CalibrationKeys |->
                            DequeAppend(angle_history[key], angles[key])]
             full == Len(history["torso_recline"]) = STABILITY_WINDOW
             stable == is_stable(history)
             count == StableCount(full, stable, stable_frames_count)
             data == StableData(full, stable, calibration_data, angles)
         IN /\ InPosition(l)
            /\ gapInRun' = (gapInRun /\ data # <<>>)
            /\ CalEvent(lastAngles # NoAngles /\ angles # lastAngles)
            /\ lastAngles' = angles
            /\ everStable' = (everStable \/
                                (full /\ \A key \in CalibrationKeys :
                                            StdBelowThreshold(history[key])))
            /\ CalEndFrame(esc, history, count, data, TRUE)
    /\ UNCHANGED <<mvars, evars, file0>>

CalInit ==
    /\ file \in {NoFile, FileOf(CalibrationBaseline)}
    /\ MonIdle
    /\ ExtIdle
    /\ AngleIdle
    /\ ScoreIdle
    /\ cpc = "start"
    /\ angle_history = EmptyHistory
    /\ stable_frames_count = 0
    /\ calibration_data = <<>>
    /\ is_in_position = FALSE
    /\ file0 = file
    /\ events = 0
    /\ lastAngles = NoAngles
    /\ constFrames = 0
    /\ everStable = FALSE
    /\ exitBy = "none"
    /\ exitCount = 0
    /\ exitLen = 0
    /\ gapInRun = FALSE

CalNext ==
    CalStart \/ CalReadFail \/ CalNoPerson \/ CalNotVisible \/ CalOutOfPosition
    \/ CalInPosition

SpecCalibration == CalInit /\ [][CalNext]_vars

\* --------------------------------------------- the extractors, their actions
\* A call of get_posture_angles of src/posture_utils.py.
ExtractRoot ==
    /\ epc = "ready"
    /\ epc' = "done_root"
    /\ posture_angles' = get_posture_angles(landmarks).angles
    /\ sources' = get_posture_angles(landmarks).sources
    /\ UNCHANGED <<file, mvars, cvars, landmarks, avars, svars>>

\* A call of get_posture_angles of python/posture_utils.py.
ExtractPy ==
    /\ epc = "ready"
    /\ epc' = "done_py"
    /\ posture_angles' = get_posture_angles_py(landmarks).angles
    /\ sources' = get_posture_angles_py(landmarks).sources
    /\ UNCHANGED <<file, mvars, cvars, landmarks, avars, svars>>

ExtInit ==
    /\ file = NoFile
    /\ MonIdle
    /\ CalIdle
    /\ AngleIdle
    /\ ScoreIdle
    /\ epc = "ready"
    /\ landmarks \in FrameLandmarks
    /\ posture_angles = NoAnglesOut
    /\ sources = NoSources

ExtNext == ExtractRoot \/ ExtractPy

SpecExtract == ExtInit /\ [][ExtNext]_vars

\* ------------------------------------- the angle functions, their actions
\* A call of calculate_3d_angle(a, b, c) of src/monitor_posture.py.
Angle3dMonitor ==
    /\ apc = "ready"
    /\ apc' = "done_monitor"
    /\ angle_out' = calculate_3d_angle(points[1], points[2], points[3])
    /\ UNCHANGED <<file, mvars, cvars, epc, landmarks, posture_angles, sources, points,
                   svars>>

\* A call of calculate_angle_3d(a, b, c) of src/posture_utils.py.
Angle3dUtils ==
    /\ apc = "ready"
    /\ apc' = "done_utils"
    /\ angle_out' = calculate_angle_3d(points[1], points[2], points[3])
    /\ UNCHANGED <<file, mvars, cvars, epc, landmarks, posture_angles, sources, points,
                   svars>>

\* A call of calculate_angle_between_vectors of python/posture_utils.py on the
\* rays from b to a and from b to c, as get_posture_angles calls it.
AngleBetweenVectors ==
    /\ apc = "ready"
    /\ apc' = "done_py"
    /\ angle_out' = calculate_angle_between_vectors(Sub(points[1], points[2]),
                                                    Sub(points[3], points[2]))
    /\ UNCHANGED <<file, mvars, cvars, epc, landmarks, posture_angles, sources, points,
                   svars>>

AngleInit ==
    /\ file = NoFile
    /\ MonIdle
    /\ CalIdle
    /\ ExtIdle
    /\ ScoreIdle
    /\ apc = "ready"
    /\ points \in AngleTriples
    /\ angle_out = AngleNone

AngleNext == Angle3dMonitor \/ Angle3dUtils \/ AngleBetweenVectors

SpecAngle == AngleInit /\ [][AngleNext]_vars

\* ------------------------------------------- the scoring, its action
\* One frame's compute_score(current, baseline) and bad_now, as the loop of
\* monitor() computes them on a frame that does not adapt the baseline.
ScoreFrame ==
    /\ spc = "ready"
    /\ spc' = "done"
    /\ score_out' = compute_score(score_args.current, score_args.baseline)
    /\ bad_out' = bad_now(score_args.current, score_args.baseline)
    /\ UNCHANGED <<file, mvars, cvars, epc, landmarks, posture_angles, sources, avars,
                   score_args>>

ScoreInit ==
    /\ file = NoFile
    /\ MonIdle
    /\ CalIdle
    /\ ExtIdle
    /\ AngleIdle
    /\ spc = "ready"
    /\ score_args \in ScoreArgs
    /\ score_out = None
    /\ bad_out = FALSE

ScoreNext == ScoreFrame

SpecScore == ScoreInit /\ [][ScoreNext]_vars

\* ------------------------------ the calibration, and then the monitor
\* monitor_posture.py is started once calibrate_posture.py has returned: of
\* the calibration only its outcome and the file remain.
MonBegin ==
    /\ cpc \in {"saved", "failed"}
    /\ mpc = "idle"
    /\ mpc' = "start"
    /\ file0' = NoFile
    /\ events' = 0
    /\ lastAngles' = NoAngles
    /\ constFrames' = 0
    /\ everStable' = FALSE
    /\ exitBy' = "none"
    /\ exitCount' = 0
    /\ exitLen' = 0
    /\ gapInRun' = FALSE
    /\ UNCHANGED <<file, clock, cap, baseline, good_frames, bad_since, elapsed, display,
                   adapts, lastBad, runStart, ended, gvars, cpc, angle_history,
                   stable_frames_count, calibration_data, is_in_position, evars>>

\* run_calibration() is called with no file, or over a file an earlier
\* session of either program left.
ProtocolInit ==
    /\ file \in MonitorFiles
    /\ MonIdle
    /\ ExtIdle
    /\ AngleIdle
    /\ ScoreIdle
    /\ cpc = "start"
    /\ angle_history = EmptyHistory
    /\ stable_frames_count = 0
    /\ calibration_data = <<>>
    /\ is_in_position = FALSE
    /\ file0 = file
    /\ events = 0
    /\ lastAngles = NoAngles
    /\ constFrames = 0
    /\ everStable = FALSE
    /\ exitBy = "none"
    /\ exitCount = 0
    /\ exitLen = 0
    /\ gapInRun = FALSE

ProtocolNext == CalNext \/ MonBegin \/ MonNext

SpecProtocol == ProtocolInit /\ [][ProtocolNext]_vars

\* ------------------------------------------------- claims on the monitor
\* The last iteration scored a frame, and the loop is still running.
Scored == mpc = "loop" /\ display \in {"score", "adjusting", "sit_up"}

\* C1: the sustained alert is on the display only when every scored frame since
\* the run of slouching frames began had bad_now and more than ALERT_TIME
\* seconds have passed since the run's first frame; while the run has lasted at
\* most ALERT_TIME seconds the display reads "Adjusting...".
C1_AlertOnlyAfterAlertTime ==
    /\ display = "sit_up" =>
          lastBad /\ runStart # None /\ clock - runStart > ALERT_TIME
    /\ Scored /\ lastBad /\ clock - runStart <= ALERT_TIME => display = "adjusting"

\* C1's case: the alert is up, one second past the boundary.
C1_Witness ==
    display = "sit_up" /\ lastBad /\ clock - runStart = ALERT_TIME + 1

\* C2: a scored frame without bad_now leaves bad_since = None and no alert text,
\* and while a run of slouching frames lasts bad_since is the clock reading of
\* that run's own first frame.
C2_ResetOnFirstGoodFrame ==
    /\ Scored /\ ~lastBad => bad_since = None /\ elapsed = 0 /\ display = "score"
    /\ Scored /\ lastBad => bad_since = runStart /\ elapsed = clock - runStart

\* C2's case: an earlier run was ended by a frame without bad_now, and a later
\* run is being timed from its own first frame.
C2_Witness ==
    /\ ended /\ Scored /\ lastBad
    /\ bad_since = runStart /\ elapsed = 0 /\ display = "adjusting" /\ clock > ALERT_TIME + 1

\* C3: once a run of slouching frames has lasted more than T2 seconds the
\* display carries an escalated alert, distinct from the one shown after
\* ALERT_TIME.
C3_EscalatedAfterT2 ==
    Scored /\ lastBad /\ clock - runStart > T2 => display = "escalated"

\* C4: the adaptive baseline update never runs on a frame that the slouch timer
\* enters with bad_since set, nor on one that it leaves slouching.
C4_NoAdaptWhileSlouching ==
    [][adapts' # adapts => bad_since = None /\ ~lastBad']_vars

\* C8: with no baseline file, monitor() raises before it opens the camera or
\* shows a frame, holds no baseline, and the file stays absent.
C8_MissingBaselineFailsFirst ==
    /\ ~file.exists =>
          /\ mpc \in {"start", "raised"}
          /\ cap = "none"
          /\ display = "blank"
          /\ DOMAIN baseline = {}
    /\ mpc = "raised" => ~file.exists

\* C8's case: monitor() has raised FileNotFoundError.
C8_Witness == mpc = "raised" /\ ~file.exists /\ cap = "none"

\* --------------------------------------------- claims on the calibration
\* The baseline in the file has this value on every axis.
BaselineIs(f, angles) ==
    /\ f.exists
    /\ DOMAIN f.data = CalibrationKeys
    /\ \A key \in CalibrationKeys : f.data[key].num = angles[key] * f.data[key].den

\* C5, as amended: on a stream whose every frame is visible, in position and
\* carries the same angles, stable_frames_count is the number of frames read
\* with a full window, the frame that fills the window being the first; the
\* loop is left by the count on frame STABILITY_WINDOW + STABLE_FRAMES_REQUIRED
\* - 1 of the stream, and the baseline written is that constant on every axis.
C5_ConstantStreamStableAtFrame104 ==
    /\ events = 0 /\ cpc = "loop" =>
          /\ constFrames < STABILITY_WINDOW + STABLE_FRAMES_REQUIRED - 1
          /\ stable_frames_count = Max(0, constFrames - (STABILITY_WINDOW - 1))
    /\ events = 0 /\ exitBy = "stable" =>
          /\ constFrames = STABILITY_WINDOW + STABLE_FRAMES_REQUIRED - 1
          /\ cpc = "saved"
          /\ BaselineIs(file, lastAngles)

\* C5's case: a constant stream has run to the count's break and the baseline
\* is written.
C5_Witness ==
    events = 0 /\ exitBy = "stable" /\ cpc = "saved" /\ exitCount = STABLE_FRAMES_REQUIRED

\* C5 as stated: on such a stream the loop is left by the count exactly
\* STABLE_FRAMES_REQUIRED frames after the STABILITY_WINDOW frames that fill the
\* window, and the baseline written is that constant on every axis.
C5_StableAfter75FramesPostFill ==
    events = 0 /\ exitBy = "stable" =>
        /\ constFrames = STABILITY_WINDOW + STABLE_FRAMES_REQUIRED
        /\ BaselineIs(file, lastAngles)

\* C6: as long as every frame with a full window had some axis at or above the
\* threshold, stable_frames_count is 0, nothing is accumulated, the loop is not
\* left by the count and no baseline is written.
C6_NeverStableNeverSaved ==
    ~everStable =>
        /\ stable_frames_count = 0
        /\ calibration_data = <<>>
        /\ exitBy # "stable"
        /\ cpc # "saved"
        /\ SameFile(file, file0)

\* C6's case: the window is full and back_curve jitters above the threshold,
\* with no stable frame so far.
C6_Witness ==
    /\ cpc = "loop" /\ ~everStable
    /\ Len(angle_history["back_curve"]) = STABILITY_WINDOW
    /\ ~StdBelowThreshold(angle_history["back_curve"])
    /\ StdBelowThreshold(angle_history["torso_recline"])

\* C7: a loop left by ESC or by a failed read with stable_frames_count below
\* STABLE_FRAMES_REQUIRED fails and leaves the file as it was; the file changes
\* only when the loop was left with at least STABLE_FRAMES_REQUIRED samples.
C7_NoBaselineWithoutEnoughSamples ==
    /\ exitBy \in {"esc", "read"} /\ exitCount < STABLE_FRAMES_REQUIRED =>
          cpc = "failed" /\ SameFile(file, file0)
    /\ cpc = "saved" =>
          exitLen >= STABLE_FRAMES_REQUIRED /\ exitCount >= STABLE_FRAMES_REQUIRED
    /\ cpc \in {"start", "loop", "nocam", "failed"} => SameFile(file, file0)

\* C7's case: ESC one stable frame short of the count, over an older baseline.
C7_Witness ==
    /\ exitBy = "esc" /\ exitCount = STABLE_FRAMES_REQUIRED - 1
    /\ cpc = "failed" /\ file0.exists

\* C15: after a frame with no person, with landmarks not visible or with a
\* point outside the oval, the rolling windows are empty and
\* stable_frames_count is 0.
C15_NoSampleResetsWindows ==
    cpc = "loop" /\ ~is_in_position =>
        angle_history = EmptyHistory /\ stable_frames_count = 0

\* C16: a baseline is written from STABLE_FRAMES_REQUIRED samples with no
\* frame without a person or with landmarks not visible between the first and
\* the last of them.
C16_BaselineFromUnbrokenRun ==
    cpc = "saved" => exitLen = STABLE_FRAMES_REQUIRED /\ ~gapInRun

\* C20: len(calibration_data) equals stable_frames_count, within
\* 0..STABLE_FRAMES_REQUIRED, after every frame and at the exit; a loop that
\* was left writes a baseline exactly when it was left with
\* stable_frames_count = STABLE_FRAMES_REQUIRED, by ESC included.
C20_DataLenIsCount ==
    /\ Len(calibration_data) = stable_frames_count
    /\ 0 <= stable_frames_count /\ stable_frames_count <= STABLE_FRAMES_REQUIRED
    /\ exitLen = exitCount
    /\ 0 <= exitCount /\ exitCount <= STABLE_FRAMES_REQUIRED
    /\ exitBy # "none" =>
          /\ cpc \in {"saved", "failed"}
          /\ cpc = "saved" <=> exitCount = STABLE_FRAMES_REQUIRED
          /\ cpc = "saved" => file.exists /\ ~SameFile(file, NoFile)
          /\ cpc = "failed" => SameFile(file, file0)

\* C20's case: ESC on the frame that brings the count to
\* STABLE_FRAMES_REQUIRED, and the baseline is written.
C20_Witness ==
    exitBy = "esc" /\ exitCount = STABLE_FRAMES_REQUIRED /\ cpc = "saved"

\* ---------------------------------------------- claims on the extractors
Done == epc \in {"done_root", "done_py"}
HasAngles == sources # NoSources

\* C9: the hip, shoulder and ear an extraction used are all from one side.
C9_NeverMixesSides ==
    Done /\ HasAngles =>
        /\ SideOf(sources.hip) = SideOf(sources.shoulder)
        /\ SideOf(sources.shoulder) = SideOf(sources.ear)

\* C10: an extraction yields angles only when the hip, shoulder and ear it
\* used each have a visibility strictly above 0.5.
C10_AnglesOnlyAboveHalfVisibility ==
    Done /\ HasAngles =>
        \A part \in {"hip", "shoulder", "ear"} : landmarks[sources[part]].visibility > 5

\* The extraction took its hip, shoulder and ear from this side.
AllFrom(side) ==
    /\ SideOf(sources.hip) = side
    /\ SideOf(sources.shoulder) = side
    /\ SideOf(sources.ear) = side

\* C18: an extraction that yields angles takes hip, shoulder and ear from the
\* side whose shoulder is the more visible one.
C18_SideFollowsShoulderVisibility ==
    Done /\ HasAngles =>
        /\ landmarks["RIGHT_SHOULDER"].visibility > landmarks["LEFT_SHOULDER"].visibility
              => AllFrom("right")
        /\ landmarks["LEFT_SHOULDER"].visibility > landmarks["RIGHT_SHOULDER"].visibility
              => AllFrom("left")

\* Point p is straight above point q in the image (y grows downward).
DirectlyAbove(p, q) == p[1] = q[1] /\ p[3] = q[3] /\ p[2] < q[2]
\* The angle is 0 degrees: its cosine is 1.
IsZeroDegrees(angle) ==
    angle.kind = "angle" /\ angle.dot > 0 /\ angle.dot * angle.dot = angle.nn

\* C19: with the shoulder straight above the hip torso_recline is 0 degrees,
\* and with the ear straight above the shoulder neck_protraction is 0 degrees.
C19_UprightIsZero ==
    Done /\ HasAngles =>
        /\ DirectlyAbove(landmarks[sources.shoulder].pt, landmarks[sources.hip].pt)
              => IsZeroDegrees(posture_angles.torso_recline)
        /\ DirectlyAbove(landmarks[sources.ear].pt, landmarks[sources.shoulder].pt)
              => IsZeroDegrees(posture_angles.neck_protraction)

\* ------------------------------------------ claims on the angle functions
\* An angle function has returned from a call with a = b or c = b.
DegenerateCall ==
    /\ apc \in {"done_monitor", "done_utils", "done_py"}
    /\ (points[1] = points[2] \/ points[3] = points[2])

\* C11: every angle function called with a = b or c = b returns a signal that
\* the angle is undefined (None, or nan), and never a number of degrees such
\* as 0.
C11_DegenerateAngleIsUndefined ==
    DegenerateCall => angle_out.kind \in {"None", "nan"}

\* A step of the loop that scores a frame / that skips one.
ScoredStep == mpc = "loop" /\ mpc' = "loop" /\ display' # "no_person"
SkippedStep == mpc = "loop" /\ mpc' = "loop" /\ display' = "no_person"

\* C14: a frame without a detected pose, or with a landmark the monitor reads
\* below the visibility threshold, is not scored: it leaves bad_since,
\* good_frames, the baseline and the baseline file as they were.
C14_HiddenFrameSkipped ==
    [][mpc = "loop" /\ (display' = "no_person" \/ occluded') =>
          UNCHANGED <<bad_since, good_frames, baseline, file>>]_vars

\* C17 (as the code has it): good_frames counts the good scored frames since
\* the last scored frame that was not good or the last update, frames without
\* a pose neither counting nor resetting; an update happens only on a good
\* frame that completes GOOD_FRAMES_FOR_ADAPT of them and leaves good_frames
\* at 0; a scored frame that is not good leaves good_frames at 0.
C17_UpdateAfter90GoodScoredFrames ==
    /\ [](mpc = "loop" => good_frames = streak)
    /\ [][adapts' # adapts =>
            lastGood' /\ streak + 1 = GOOD_FRAMES_FOR_ADAPT /\ good_frames' = 0]_vars
    /\ [][ScoredStep /\ ~lastGood' => good_frames' = 0]_vars
    /\ [][SkippedStep => good_frames' = good_frames]_vars

\* C17's case: the frame just scored was good and made the update.
C17_Witness ==
    mpc = "loop" /\ adapts = 1 /\ lastGood /\ good_frames = 0 /\ streak = 0

\* C17 (as stated): as above, and the 90 good frames that lead to an update
\* are consecutive frames of the stream, with no skipped frame between them:
\* the frame before the update's is the 89th of them, not a skipped one.
C17_UpdateAfter90ConsecutiveFrames ==
    /\ [](mpc = "loop" => good_frames = streak)
    /\ [][adapts' # adapts =>
            /\ lastGood' /\ streak + 1 = GOOD_FRAMES_FOR_ADAPT /\ good_frames' = 0
            /\ display # "no_person"]_vars
    /\ [][ScoredStep /\ ~lastGood' => good_frames' = 0]_vars

\* ------------------------------------------------ claims on the scoring
\* C12: for current and baseline angles in [0, 180] compute_score returns a
\* value from 0 to 100, and exactly 100 when current equals baseline on both
\* axes.
C12_ScoreRange ==
    spc = "done" =>
        /\ 0 <= score_out /\ score_out <= Deg(100) * 100
        /\ score_args.current = score_args.baseline => score_out = Deg(100) * 100

\* C12's case: a frame at a baseline of (90, 150) degrees is scored 100.
C12_Witness ==
    /\ spc = "done"
    /\ score_args.current = score_args.baseline
    /\ score_args.baseline = [neck |-> Deg(90), upper_back |-> Deg(150)]
    /\ score_out = Deg(100) * 100

\* The current angles with the back's angle put at its baseline.
BackAtBaseline ==
    [score_args.current EXCEPT !["upper_back"] = score_args.baseline["upper_back"]]

\* C13: a back angle at or above its baseline (a back as straight or
\* straighter) costs no points and does not make the frame a slouching one:
\* score and bad_now are what they are with the back at its baseline.
C13_StraighterBackNoPenalty ==
    spc = "done" /\ score_args.current["upper_back"] >= score_args.baseline["upper_back"] =>
        /\ score_out = compute_score(BackAtBaseline, score_args.baseline)
        /\ bad_out = bad_now(BackAtBaseline, score_args.baseline)

\* ----------------------------------- claims on calibration, then monitor
\* C21: the baseline a successful calibration wrote holds every key the
\* monitor reads, so a monitor started on it has those keys in its baseline
\* and does not end in a KeyError on a frame with pose landmarks.
C21_CalibratedBaselineHasMonitorKeys ==
    cpc = "saved" =>
        /\ mpc = "loop" => MonitorKeys \subseteq DOMAIN baseline
        /\ mpc # "crashed"

====
